---- MODULE Spec2Model ----
(***************************************************************************)
(* HTMLTableConverter (src/html_table_converter.py): the normalisation of  *)
(* an HTML table with rowspan/colspan and nested tables into a list of     *)
(* records or a list of lists.  _process_table is modelled step by step    *)
(* for the table being converted (one step per loop position); the tables  *)
(* nested in its cells are converted by the same code, called recursively, *)
(* which is the operator ProcessTable.  The PDF path is modelled likewise:  *)
(* _process_pdf_table step by step on an extracted table, and              *)
(* _extract_tables_by_character_grid step by step on the characters of a   *)
(* page.                                                                   *)
(***************************************************************************)
EXTENDS Integers, Sequences, FiniteSets, TLC

(***************************************************************************)
(* Bounds of the model.                                                    *)
(***************************************************************************)
MaxRows == 3
MaxCells == 3
MaxDecls == 4

(***************************************************************************)
(* Python values.  A str, None, a list and a dict are records with         *)
(* different fields, so that any two values can be compared.  A dict is    *)
(* the sequence of its items in insertion order, its keys being str.       *)
(***************************************************************************)
PStr(s) == [str |-> s]
PNone == [none |-> TRUE]
PList(xs) == [list |-> xs]
PDict(items) == [dict |-> items]
\* One item of a dict.
Item(key, value) == [key |-> key, value |-> value]
IsStr(v) == "str" \in DOMAIN v
IsNone(v) == "none" \in DOMAIN v
IsList(v) == "list" \in DOMAIN v
IsDict(v) == "dict" \in DOMAIN v
\* An exception leaving the function instead of a return value.
TypeError == [raised |-> "TypeError"]
IsRaised(v) == "raised" \in DOMAIN v

Range(s) == {s[i] : i \in DOMAIN s}
Max(a, b) == IF a >= b THEN a ELSE b
Take(s, n) == SubSeq(s, 1, IF n <= Len(s) THEN n ELSE Len(s))

\* d[k] = v of a dict: an existing key keeps its place and gets the value.
DictSet(items, k, v) ==
    IF \E i \in DOMAIN items : items[i].key = k
    THEN [i \in DOMAIN items |-> IF items[i].key = k THEN Item(k, v) ELSE items[i]]
    ELSE Append(items, Item(k, v))
DictKeys(d) == [i \in DOMAIN d.dict |-> d.dict[i].key]

\* str.strip(): the texts of the model that carry outer white space.
Strip(s) ==
    CASE s = " " -> ""
      [] s = " x" -> "x"
      [] s = "x " -> "x"
      [] s = " Id_1" -> "Id_1"
      [] OTHER -> s

\* ", ".join / " - ".join
RECURSIVE Join(_, _)
Join(sep, ss) ==
    IF ss = <<>> THEN ""
    ELSE IF Len(ss) = 1 THEN ss[1]
    ELSE ss[1] \o sep \o Join(sep, Tail(ss))

\* repr() and str() of a value (texts of the model hold no quote).
RECURSIVE Repr(_)
Repr(v) ==
    IF IsStr(v) THEN "'" \o v.str \o "'"
    ELSE IF IsNone(v) THEN "None"
    ELSE IF IsList(v) THEN "[" \o Join(", ", [i \in DOMAIN v.list |-> Repr(v.list[i])]) \o "]"
    ELSE "{" \o Join(", ", [i \in DOMAIN v.dict |->
                         "'" \o v.dict[i].key \o "': " \o Repr(v.dict[i].value)]) \o "}"
PyStr(v) == IF IsStr(v) THEN v.str ELSE Repr(v)

(***************************************************************************)
(* The parsed document: a cell (td or th) has its attributes, its text and *)
(* the tables directly inside it; a table has the rows _process_table      *)
(* collects (direct tr children, then those of thead/tbody/tfoot) and the  *)
(* number of rows of its thead, when it has one.                           *)
(***************************************************************************)
NoThead == [present |-> FALSE, rows |-> 0]
Thead(k) == [present |-> TRUE, rows |-> k]
Table(thead, rows) == [rows |-> rows, thead |-> thead]
Cell(name, attrs, text, tables) ==
    [name |-> name, attrs |-> attrs, text |-> text, tables |-> tables]
Td(text) == Cell("td", <<>>, text, <<>>)
Th(text) == Cell("th", <<>>, text, <<>>)
\* The attributes of a cell: none, or rowspan and/or colspan.
Attrs(rs, cs) == [rowspan |-> rs, colspan |-> cs]
OnlyRowspan(rs) == [rowspan |-> rs]
OnlyColspan(cs) == [colspan |-> cs]

\* int() of an attribute value
PyInt(a) ==
    CASE a = "-1" -> -1
      [] a = "0" -> 0
      [] a = "1" -> 1
      [] a = "2" -> 2
      [] a = "3" -> 3
\* int(cell.get(key, 1))
SpanOf(cell, key) ==
    IF key \in DOMAIN cell.attrs THEN PyInt(cell.attrs[key]) ELSE 1
\* cell.get_text(strip=True)
GetText(cell) == Strip(cell.text)
\* all(c.name == 'th' for c in tr.find_all(['td', 'th'], recursive=False))
AllTh(tr) == \A i \in DOMAIN tr : tr[i].name = "th"

\* cell.find_all('table'): every table below the cell, in document order,
\* the tables nested in a table's own cells included.
RECURSIVE FindAllTables(_)
RECURSIVE FindAllInRows(_)
RECURSIVE FindAllInCells(_)
FindAllInCells(cells) ==
    IF cells = <<>> THEN <<>>
    ELSE FindAllTables(Head(cells).tables) \o FindAllInCells(Tail(cells))
FindAllInRows(rows) ==
    IF rows = <<>> THEN <<>>
    ELSE FindAllInCells(Head(rows)) \o FindAllInRows(Tail(rows))
FindAllTables(tables) ==
    IF tables = <<>> THEN <<>>
    ELSE <<Head(tables)>> \o FindAllInRows(Head(tables).rows) \o FindAllTables(Tail(tables))

(***************************************************************************)
(* The grid fill of _process_table.                                        *)
(***************************************************************************)
\* while (current_row_idx, current_col_idx) in occupied_cells: current_col_idx += 1
RECURSIVE SkipOccupied(_, _, _)
SkipOccupied(row, col, occ) ==
    IF <<row, col>> \in occ THEN SkipOccupied(row, col + 1, occ) ELSE col

\* The coordinates the two fill loops write for a cell anchored at (row, col).
Covered(row, col, rs, cs) ==
    {<<row + r, col + c>> : r \in 0..(rs - 1), c \in 0..(cs - 1)}

\* The two fill loops: grid, occupied_cells, max_row and max_col after them.
FillCell(g, row, col, rs, cs, value) ==
    LET W == Covered(row, col, rs, cs)
    IN  [grid |-> [p \in (DOMAIN g.grid) \cup W |-> IF p \in W THEN value ELSE g.grid[p]],
         occupied_cells |-> g.occupied_cells \cup W,
         max_row |-> IF W = {} THEN g.max_row ELSE Max(g.max_row, row + rs - 1),
         max_col |-> IF W = {} THEN g.max_col ELSE Max(g.max_col, col + cs - 1)]

EmptyGrid == [grid |-> <<>>, occupied_cells |-> {}, max_row |-> 0, max_col |-> 0]

\* Convert grid to list of lists: grid.get((r, c), "") over the rectangle.
TableMatrix(g) ==
    [r \in 1..(g.max_row + 1) |->
        [c \in 1..(g.max_col + 1) |->
            IF <<r - 1, c - 1>> \in DOMAIN g.grid THEN g.grid[<<r - 1, c - 1>>] ELSE PStr("")]]

(***************************************************************************)
(* _merge_header_rows and _make_unique.                                    *)
(***************************************************************************)
\* col_values without the test of val: the empty values are collected too.
ColValuesWithEmpty(header_rows, col) ==
    [r \in DOMAIN header_rows |->
        IF col <= Len(header_rows[r]) THEN Strip(PyStr(header_rows[r][col])) ELSE ""]

\* col_values of one column: the non-empty str(row[col_idx]).strip() in row order.
RECURSIVE ColValues(_, _)
ColValues(header_rows, col) ==
    IF header_rows = <<>> THEN <<>>
    ELSE LET row == Head(header_rows)
             val == IF col <= Len(row) THEN Strip(PyStr(row[col])) ELSE ""
         IN  (IF val # "" THEN <<val>> ELSE <<>>) \o ColValues(Tail(header_rows), col)

RECURSIVE MaxLen(_)
MaxLen(rws) ==
    IF rws = <<>> THEN 0 ELSE Max(Len(Head(rws)), MaxLen(Tail(rws)))

MergeHeaderRows(header_rows) ==
    IF Len(header_rows) = 1 THEN header_rows[1]
    ELSE IF Len(header_rows) < 1 THEN <<>>
    ELSE [col \in 1..MaxLen(header_rows) |->
            PStr(Join(" - ", ColValues(header_rows, col)))]

\* The loop of _make_unique without seen[h] += 1: every repeat of a name gets
\* the suffix _1.
RECURSIVE MakeUniqueWithoutCount(_, _, _, _)
MakeUniqueWithoutCount(headers, i, seen, new_headers) ==
    IF i > Len(headers) THEN PList(new_headers)
    ELSE LET h == headers[i]
         IN  IF IsList(h) THEN TypeError
             ELSE IF h \in DOMAIN seen
             THEN MakeUniqueWithoutCount(headers, i + 1, seen,
                                         Append(new_headers, PStr(PyStr(h) \o "_1")))
             ELSE MakeUniqueWithoutCount(headers, i + 1,
                                         [k \in (DOMAIN seen) \cup {h} |-> 0],
                                         Append(new_headers, h))

\* The loop of _make_unique from position i on; seen maps a name to its counter.
\* A header that is a list cannot be hashed: h in seen raises TypeError.
\* The value returned is the list new_headers.
RECURSIVE MakeUniqueFrom(_, _, _, _)
MakeUniqueFrom(headers, i, seen, new_headers) ==
    IF i > Len(headers) THEN PList(new_headers)
    ELSE LET h == headers[i]
         IN  IF IsList(h) THEN TypeError
             ELSE IF h \in DOMAIN seen
             THEN LET n == seen[h] + 1
                  IN  MakeUniqueFrom(headers, i + 1, [seen EXCEPT ![h] = n],
                                     Append(new_headers, PStr(PyStr(h) \o "_" \o ToString(n))))
             ELSE MakeUniqueFrom(headers, i + 1,
                                 [k \in (DOMAIN seen) \cup {h} |-> IF k = h THEN 0 ELSE seen[k]],
                                 Append(new_headers, h))
MakeUnique(headers) == MakeUniqueFrom(headers, 1, <<>>, <<>>)

(***************************************************************************)
(* Header detection and record assembly of _process_table.                 *)
(***************************************************************************)
\* headers and data_start_index after the header detection.
DetectHeaders(thead, rows, table_matrix) ==
    IF thead.present
    THEN IF thead.rows > 0
         THEN [headers |-> MergeHeaderRows(Take(table_matrix, thead.rows)),
               data_start_index |-> thead.rows]
         ELSE [headers |-> <<>>, data_start_index |-> 0]
    ELSE IF AllTh(rows[1])
         THEN IF Len(rows) > 1 /\ AllTh(rows[2])
              THEN [headers |-> MergeHeaderRows(Take(table_matrix, 2)), data_start_index |-> 2]
              ELSE [headers |-> table_matrix[1], data_start_index |-> 1]
         ELSE [headers |-> <<>>, data_start_index |-> 0]

\* record of one row: record[h] = row[h_idx] if h_idx < len(row) else None
RECURSIVE RecordFrom(_, _, _, _)
RecordFrom(unique_headers, row, i, items) ==
    IF i > Len(unique_headers) THEN PDict(items)
    ELSE RecordFrom(unique_headers, row, i + 1,
                    DictSet(items, unique_headers[i].str,
                            IF i <= Len(row) THEN row[i] ELSE PNone))

\* json_data: one record per row of table_matrix from data_start_index on.
JsonData(unique_headers, table_matrix, data_start_index) ==
    [i \in 1..Max(0, Len(table_matrix) - data_start_index) |->
        RecordFrom(unique_headers, table_matrix[data_start_index + i], 1, <<>>)]

MatrixValue(table_matrix) ==
    PList([r \in DOMAIN table_matrix |-> PList(table_matrix[r])])

\* if headers: ... return json_data / else: return table_matrix
AssembleResult(headers, table_matrix, data_start_index) ==
    IF headers # <<>>
    THEN LET unique_headers == MakeUnique(headers)
         IN  IF IsRaised(unique_headers) THEN TypeError
             ELSE PList(JsonData(unique_headers.list, table_matrix, data_start_index))
    ELSE MatrixValue(table_matrix)

(***************************************************************************)
(* _process_table as called for a nested table: the same code, run to its  *)
(* end.  An exception of a nested call leaves every enclosing call.        *)
(***************************************************************************)
RECURSIVE ProcessTable(_)
RECURSIVE ProcessAll(_)
RECURSIVE FillRows(_, _, _)
RECURSIVE FillCells(_, _, _, _)

\* cell_data: the result of every table cell.find_all('table') found.
ProcessAll(nested_tables) ==
    IF nested_tables = <<>> THEN PList(<<>>)
    ELSE LET first == ProcessTable(Head(nested_tables))
         IN  IF IsRaised(first) THEN TypeError
             ELSE LET rest == ProcessAll(Tail(nested_tables))
                  IN  IF IsRaised(rest) THEN TypeError ELSE PList(<<first>> \o rest.list)

\* cell_value: the nested tables of the cell, or its text.
CellValue(cell) ==
    LET nested_tables == FindAllTables(cell.tables)
    IN  IF nested_tables # <<>>
        THEN LET cell_data == ProcessAll(nested_tables)
             IN  IF IsRaised(cell_data) THEN TypeError
                 ELSE IF Len(cell_data.list) = 1 THEN cell_data.list[1] ELSE cell_data
        ELSE PStr(GetText(cell))

\* for cell in cells: the cells of one tr from position j on.
FillCells(cells, row, col, g) ==
    IF cells = <<>> THEN g
    ELSE LET cell == Head(cells)
             anchor == SkipOccupied(row, col, g.occupied_cells)
             rs == SpanOf(cell, "rowspan")
             cs == SpanOf(cell, "colspan")
             value == CellValue(cell)
         IN  IF IsRaised(value) THEN TypeError
             ELSE FillCells(Tail(cells), row, anchor + cs,
                            FillCell(g, row, anchor, rs, cs, value))

\* for tr in rows: the rows from current_row_idx = row on.
FillRows(rows, row, g) ==
    IF rows = <<>> THEN g
    ELSE LET after == FillCells(Head(rows), row, 0, g)
         IN  IF IsRaised(after) THEN TypeError
             ELSE FillRows(Tail(rows), row + 1, after)

ProcessTable(table) ==
    IF table.rows = <<>> THEN PList(<<>>)
    ELSE LET g == FillRows(table.rows, 0, EmptyGrid)
         IN  IF IsRaised(g) THEN TypeError
             ELSE LET table_matrix == TableMatrix(g)
                      h == DetectHeaders(table.thead, table.rows, table_matrix)
                  IN  AssembleResult(h.headers, table_matrix, h.data_start_index)

(***************************************************************************)
(* _process_pdf_table: a table extracted from a PDF is a list of rows of   *)
(* cells, a cell being a str or None, the rows of any widths.              *)
(***************************************************************************)
\* str(cell).strip() if cell is not None else ""
CleanCell(cell) == IF IsNone(cell) THEN PStr("") ELSE PStr(Strip(PyStr(cell)))
CleanedRow(row) == [i \in DOMAIN row |-> CleanCell(row[i])]
CleanedTable(table) == [r \in DOMAIN table |-> CleanedRow(table[r])]

\* sum(1 for cell in row if not cell or cell == "")
EmptyCount(row) == Cardinality({i \in DOMAIN row : row[i].str = ""})

\* header_row_count with the second row allowed to be half empty.
HeaderRowCountHalfEmpty(cleaned_table) ==
    IF /\ Len(cleaned_table) > 2
       /\ EmptyCount(cleaned_table[2]) < EmptyCount(cleaned_table[1])
       /\ 2 * EmptyCount(cleaned_table[2]) <= Len(cleaned_table[2])
    THEN 2 ELSE 1

\* header_row_count of a cleaned table of more than one row.  The counts are
\* integers, so second_row_empty_count < len(row) * 0.5 is 2 * count < len.
PdfHeaderRowCount(cleaned_table) ==
    LET first_row_empty_count == EmptyCount(cleaned_table[1])
        second_row_empty_count == EmptyCount(cleaned_table[2])
    IN  IF /\ Len(cleaned_table) > 2
           /\ second_row_empty_count < first_row_empty_count
           /\ 2 * second_row_empty_count < Len(cleaned_table[2])
        THEN 2 ELSE 1

\* json_data of _process_pdf_table: one record per row of data_rows.
PdfJsonData(unique_headers, data_rows) ==
    [i \in DOMAIN data_rows |-> RecordFrom(unique_headers, data_rows[i], 1, <<>>)]

ProcessPdfTable(table) ==
    IF table = <<>> THEN PList(<<>>)
    ELSE LET cleaned_table == CleanedTable(table)
         IN  IF Len(cleaned_table) > 1
             THEN LET header_row_count == PdfHeaderRowCount(cleaned_table)
                      header_rows == Take(cleaned_table, header_row_count)
                      data_rows == SubSeq(cleaned_table, header_row_count + 1,
                                          Len(cleaned_table))
                      unique_headers == MakeUnique(MergeHeaderRows(header_rows))
                  IN  IF IsRaised(unique_headers) THEN TypeError
                      ELSE PList(PdfJsonData(unique_headers.list, data_rows))
             ELSE MatrixValue(cleaned_table)

(***************************************************************************)
(* The character grid: a character of a page has its text and its          *)
(* position (top, x0).                                                     *)
(***************************************************************************)
Char(text, top, x0) == [text |-> text, top |-> top, x0 |-> x0]
\* The default thresholds of the two grouping functions.
row_threshold == 5
cell_threshold == 10

Abs(n) == IF n >= 0 THEN n ELSE -n

\* The sort keys: (c.get('top', 0), c.get('x0', 0)) when by_top, else c.get('x0', 0).
NotAfter(by_top, a, b) ==
    IF by_top THEN a.top < b.top \/ (a.top = b.top /\ a.x0 <= b.x0)
    ELSE a.x0 <= b.x0

\* sorted(chars, key=...): the sort is stable, characters of equal keys keep
\* their order.  Insert puts c behind every character not after it.
RECURSIVE Insert(_, _, _)
Insert(c, s, by_top) ==
    IF s = <<>> THEN <<c>>
    ELSE IF NotAfter(by_top, s[Len(s)], c) THEN Append(s, c)
    ELSE Append(Insert(c, SubSeq(s, 1, Len(s) - 1), by_top), s[Len(s)])
RECURSIVE Sorted(_, _)
Sorted(s, by_top) ==
    IF s = <<>> THEN <<>>
    ELSE Insert(s[Len(s)], Sorted(SubSeq(s, 1, Len(s) - 1), by_top), by_top)

\* The loop of _group_characters_into_cells over sorted_chars from i on.
RECURSIVE GroupCellsFrom(_, _, _, _, _)
GroupCellsFrom(sorted_chars, i, cells, current_cell, current_x) ==
    IF i > Len(sorted_chars) THEN Append(cells, current_cell)
    ELSE LET char == sorted_chars[i]
         IN  IF Abs(char.x0 - current_x) <= cell_threshold
             THEN GroupCellsFrom(sorted_chars, i + 1, cells,
                                 Append(current_cell, char), current_x)
             ELSE GroupCellsFrom(sorted_chars, i + 1, Append(cells, current_cell),
                                 <<char>>, char.x0)
GroupCharactersIntoCells(chars) ==
    IF chars = <<>> THEN <<>>
    ELSE LET sorted_chars == Sorted(chars, FALSE)
         IN  GroupCellsFrom(sorted_chars, 2, <<>>, <<sorted_chars[1]>>, sorted_chars[1].x0)

\* ''.join(c['text'] for c in cell).strip(): the texts of the model are one
\* letter or one blank, and the blanks at the ends go.
RECURSIVE JoinTexts(_)
JoinTexts(cell) == IF cell = <<>> THEN "" ELSE Head(cell).text \o JoinTexts(Tail(cell))
RECURSIVE StripBlanks(_)
StripBlanks(cell) ==
    IF cell = <<>> THEN <<>>
    ELSE IF Head(cell).text = " " THEN StripBlanks(Tail(cell))
    ELSE IF cell[Len(cell)].text = " " THEN StripBlanks(SubSeq(cell, 1, Len(cell) - 1))
    ELSE cell
CellText(cell) == PStr(JoinTexts(StripBlanks(cell)))

\* row_data of one row of characters, and the table of all rows.
RowData(row_chars) ==
    LET cells == GroupCharactersIntoCells(row_chars)
    IN  [i \in DOMAIN cells |-> CellText(cells[i])]
ReconstructTable(char_rows) == [r \in DOMAIN char_rows |-> RowData(char_rows[r])]

\* The filter with len(table) > 1: a fragment of two rows is kept.
ExtractedTablesOfTwoRows(table) ==
    IF Len(table) > 1
    THEN LET table_data == ProcessPdfTable(table)
         IN  IF table_data.list # <<>> THEN PList(<<table_data>>) ELSE PList(<<>>)
    ELSE PList(<<>>)

\* if len(table) > 2: table_data = ...; return [table_data] if table_data else []
ExtractedTables(table) ==
    IF Len(table) > 2
    THEN LET table_data == ProcessPdfTable(table)
         IN  IF IsRaised(table_data) THEN TypeError
             ELSE IF table_data.list # <<>> THEN PList(<<table_data>>) ELSE PList(<<>>)
    ELSE PList(<<>>)

(***************************************************************************)
(* _process_table on the table being converted, step by step.  rows holds  *)
(* the row declarations read so far: the document is read as the loops     *)
(* reach it, which is the same as fixing it beforehand, since no step      *)
(* looks ahead.                                                            *)
(***************************************************************************)
VARIABLES thead, rows, grid, occupied_cells, max_row, max_col,
          current_row_idx, current_col_idx, rowspan, colspan, cell_value,
          table_matrix, headers, data_start_index, unique_headers, result, pc,
          chars, sorted_chars, current_row, current_top,
          table, cleaned_table, header_row_count, data_rows

vars == <<thead, rows, grid, occupied_cells, max_row, max_col,
          current_row_idx, current_col_idx, rowspan, colspan, cell_value,
          table_matrix, headers, data_start_index, unique_headers, result, pc,
          chars, sorted_chars, current_row, current_top,
          table, cleaned_table, header_row_count, data_rows>>
\* The variables of the PDF path, which _process_table leaves alone.
charVars == <<chars, sorted_chars, current_row, current_top>>
pdfVars == <<charVars, table, cleaned_table, header_row_count, data_rows>>
gridVars == <<grid, occupied_cells, max_row, max_col>>
cellVars == <<rowspan, colspan, cell_value>>
tailVars == <<table_matrix, headers, data_start_index, unique_headers>>

G == [grid |-> grid, occupied_cells |-> occupied_cells, max_row |-> max_row, max_col |-> max_col]

\* The cell declarations read so far.
RECURSIVE Decls(_)
Decls(rws) == IF rws = <<>> THEN 0 ELSE Len(Head(rws)) + Decls(Tail(rws))

\* A nested table with a header row, a table holding it in a data cell, and
\* a table holding it in its header cell.
InnerTable == Table(NoThead, <<  <<Th("Team")>>, <<Td("Backend")>>  >>)
OuterTable == Table(NoThead, <<  <<Th("Dept")>>, <<Cell("td", <<>>, "", <<InnerTable>>)>>  >>)
HeadedTable == Table(NoThead, <<  <<Cell("th", <<>>, "", <<InnerTable>>)>>, <<Td("Backend")>>  >>)

\* The cells a document of the model is made of.
HeaderCells ==
    {Cell(name, <<>>, text, <<>>) : name \in {"td", "th"}, text \in {"Id", "Id_1"}}
    \cup {Cell(name, <<>>, "", <<InnerTable>>) : name \in {"td", "th"}}
SpanCells ==
    {Cell("td", a, "A", <<>>) :
        a \in {<<>>} \cup {OnlyRowspan(x) : x \in {"0", "2"}}
                     \cup {OnlyColspan(x) : x \in {"0", "2"}}
                     \cup {Attrs(x, y) : x \in {"0", "2"}, y \in {"0", "2"}}}
NestedCells ==
    {Cell("td", <<>>, "", tables) :
        tables \in {<<InnerTable>>, <<OuterTable>>, <<InnerTable, InnerTable>>, <<HeadedTable>>}}
    \cup {Cell("th", <<>>, "", <<InnerTable>>), Td(" x"), Th(" x")}

\* No page and no PDF table is being processed.
NoChars ==
    /\ chars = <<>>
    /\ sorted_chars = <<>>
    /\ current_row = <<>>
    /\ current_top = 0
NoPdfTable ==
    /\ table = <<>>
    /\ cleaned_table = <<>>
    /\ header_row_count = 0
    /\ data_rows = <<>>

InitWith(theads) ==
    /\ NoChars
    /\ NoPdfTable
    /\ thead \in theads
    /\ rows = <<>>
    /\ grid = <<>>
    /\ occupied_cells = {}
    /\ max_row = 0
    /\ max_col = 0
    /\ current_row_idx = 0
    /\ current_col_idx = 0
    /\ rowspan = 1
    /\ colspan = 1
    /\ cell_value = PStr("")
    /\ table_matrix = <<>>
    /\ headers = <<>>
    /\ data_start_index = 0
    /\ unique_headers = PList(<<>>)
    /\ result = PNone
    /\ pc = "rows"

\* if not rows: return []
ReturnEmpty ==
    /\ pc = "rows"
    /\ rows = <<>>
    /\ thead.rows = 0
    /\ result' = PList(<<>>)
    /\ pc' = "done"
    /\ UNCHANGED <<pdfVars, thead, rows, gridVars, current_row_idx, current_col_idx, cellVars, tailVars>>

\* for tr in rows: current_col_idx = 0; cells = tr.find_all(['td', 'th'], recursive=False)
NextRow ==
    /\ pc = "rows"
    /\ Len(rows) < MaxRows
    /\ rows' = Append(rows, <<>>)
    /\ current_col_idx' = 0
    /\ pc' = "cells"
    /\ UNCHANGED <<pdfVars, thead, gridVars, current_row_idx, cellVars, tailVars, result>>

\* for cell in cells: the skip of occupied columns, the spans and the cell value.
ReadCell(cell) ==
    /\ pc = "cells"
    /\ Len(rows[Len(rows)]) < MaxCells
    /\ Decls(rows) < MaxDecls
    /\ rows' = [rows EXCEPT ![Len(rows)] = Append(@, cell)]
    /\ current_col_idx' = SkipOccupied(current_row_idx, current_col_idx, occupied_cells)
    /\ rowspan' = SpanOf(cell, "rowspan")
    /\ colspan' = SpanOf(cell, "colspan")
    /\ LET value == CellValue(cell)
       IN  IF IsRaised(value)
           THEN /\ result' = value
                /\ pc' = "done"
                /\ UNCHANGED cell_value
           ELSE /\ cell_value' = value
                /\ pc' = "fill"
                /\ UNCHANGED result
    /\ UNCHANGED <<pdfVars, thead, gridVars, current_row_idx, tailVars>>

\* Fill the grid: the two loops over rowspan and colspan; current_col_idx += colspan
Fill ==
    /\ pc = "fill"
    /\ LET g == FillCell(G, current_row_idx, current_col_idx, rowspan, colspan, cell_value)
       IN  /\ grid' = g.grid
           /\ occupied_cells' = g.occupied_cells
           /\ max_row' = g.max_row
           /\ max_col' = g.max_col
    /\ current_col_idx' = current_col_idx + colspan
    /\ pc' = "cells"
    /\ UNCHANGED <<pdfVars, thead, rows, current_row_idx, cellVars, tailVars, result>>

\* the end of a tr: current_row_idx += 1
EndRow ==
    /\ pc = "cells"
    /\ current_row_idx' = current_row_idx + 1
    /\ pc' = "rows"
    /\ UNCHANGED <<pdfVars, thead, rows, gridVars, current_col_idx, cellVars, tailVars, result>>

\* the end of the rows (those of the thead are among them)
EndRows ==
    /\ pc = "rows"
    /\ rows # <<>>
    /\ thead.rows <= Len(rows)
    /\ pc' = "matrix"
    /\ UNCHANGED <<pdfVars, thead, rows, gridVars, current_row_idx, current_col_idx, cellVars,
                   tailVars, result>>

\* Convert grid to list of lists
Materialize ==
    /\ pc = "matrix"
    /\ table_matrix' = TableMatrix(G)
    /\ pc' = "detect"
    /\ UNCHANGED <<pdfVars, thead, rows, gridVars, current_row_idx, current_col_idx, cellVars,
                   headers, data_start_index, unique_headers, result>>

\* Detect header rows and data start
Detect ==
    /\ pc = "detect"
    /\ LET h == DetectHeaders(thead, rows, table_matrix)
       IN  /\ headers' = h.headers
           /\ data_start_index' = h.data_start_index
    /\ pc' = "assemble"
    /\ UNCHANGED <<pdfVars, thead, rows, gridVars, current_row_idx, current_col_idx, cellVars,
                   table_matrix, unique_headers, result>>

\* if headers: the list of dicts, else the list of lists
Assemble ==
    /\ pc = "assemble"
    /\ unique_headers' = IF headers # <<>> THEN MakeUnique(headers) ELSE unique_headers
    /\ result' = AssembleResult(headers, table_matrix, data_start_index)
    /\ pc' = "done"
    /\ UNCHANGED <<pdfVars, thead, rows, gridVars, current_row_idx, current_col_idx, cellVars,
                   table_matrix, headers, data_start_index>>

Steps ==
    \/ ReturnEmpty
    \/ NextRow
    \/ Fill
    \/ EndRow
    \/ EndRows
    \/ Materialize
    \/ Detect
    \/ Assemble

\* Tables with header cells, duplicate header names and a nested table.
Init == InitWith({NoThead, Thead(0), Thead(1), Thead(2)})
Next == Steps \/ \E cell \in HeaderCells : ReadCell(cell)
Spec == Init /\ [][Next]_vars

\* Tables whose cells span rows and columns.
InitGrid == InitWith({NoThead})
NextGrid == Steps \/ \E cell \in SpanCells : ReadCell(cell)
SpecGrid == InitGrid /\ [][NextGrid]_vars

\* Tables with tables nested in their cells, to two levels.
InitNested == InitWith({NoThead, Thead(1)})
NextNested == Steps \/ \E cell \in NestedCells : ReadCell(cell)
SpecNested == InitNested /\ [][NextNested]_vars

\* The steps compute what the recursive call computes.
StepsAgreeWithCall ==
    pc = "done" => result = ProcessTable(Table(thead, rows))

(***************************************************************************)
(* _process_pdf_table step by step.  table holds the rows read so far by   *)
(* the cleaning loop, which is the same as fixing the table beforehand.    *)
(***************************************************************************)
MaxPdfRows == 3
MaxPdfCells == 3
MaxPdfDecls == 6

\* The variables of _process_table, which the PDF path leaves alone.
htmlVars == <<thead, gridVars, current_row_idx, current_col_idx, cellVars,
              table_matrix, data_start_index>>
NoHtmlTable ==
    /\ thead = NoThead
    /\ grid = <<>>
    /\ occupied_cells = {}
    /\ max_row = 0
    /\ max_col = 0
    /\ current_row_idx = 0
    /\ current_col_idx = 0
    /\ rowspan = 1
    /\ colspan = 1
    /\ cell_value = PStr("")
    /\ table_matrix = <<>>
    /\ data_start_index = 0

\* The cells of an extracted table, and its rows.
PdfCells == {PStr("Id"), PStr(" Id_1"), PNone}
PdfRows == UNION {[1..n -> PdfCells] : n \in 0..MaxPdfCells}

InitPdf ==
    /\ NoChars
    /\ NoPdfTable
    /\ NoHtmlTable
    /\ rows = <<>>
    /\ headers = <<>>
    /\ unique_headers = PList(<<>>)
    /\ result = PNone
    /\ pc = "clean"

\* if not table or len(table) == 0: return []
ReturnEmptyPdf ==
    /\ pc = "clean"
    /\ table = <<>>
    /\ result' = PList(<<>>)
    /\ pc' = "done"
    /\ UNCHANGED <<htmlVars, charVars, rows, table, cleaned_table, header_row_count,
                   data_rows, headers, unique_headers>>

\* for row in table: cleaned_table.append(cleaned_row)
CleanRow(row) ==
    /\ pc = "clean"
    /\ Len(table) < MaxPdfRows
    /\ Decls(table) + Len(row) <= MaxPdfDecls
    /\ table' = Append(table, row)
    /\ cleaned_table' = Append(cleaned_table, CleanedRow(row))
    /\ UNCHANGED <<htmlVars, charVars, rows, header_row_count, data_rows, headers,
                   unique_headers, result, pc>>

\* the end of the table
EndClean ==
    /\ pc = "clean"
    /\ table # <<>>
    /\ pc' = "heuristic"
    /\ UNCHANGED <<htmlVars, charVars, rows, table, cleaned_table, header_row_count,
                   data_rows, headers, unique_headers, result>>

\* else: return cleaned_table (only one row)
ReturnOneRow ==
    /\ pc = "heuristic"
    /\ ~(Len(cleaned_table) > 1)
    /\ result' = MatrixValue(cleaned_table)
    /\ pc' = "done"
    /\ UNCHANGED <<htmlVars, charVars, rows, table, cleaned_table, header_row_count,
                   data_rows, headers, unique_headers>>

\* if len(cleaned_table) > 1: header_row_count, header_rows, data_rows, headers
DetectPdf ==
    /\ pc = "heuristic"
    /\ Len(cleaned_table) > 1
    /\ LET count == PdfHeaderRowCount(cleaned_table)
       IN  /\ header_row_count' = count
           /\ data_rows' = SubSeq(cleaned_table, count + 1, Len(cleaned_table))
           /\ headers' = MergeHeaderRows(Take(cleaned_table, count))
    /\ pc' = "unique"
    /\ UNCHANGED <<htmlVars, charVars, rows, table, cleaned_table, unique_headers, result>>

\* unique_headers = self._make_unique(headers)
UniquePdf ==
    /\ pc = "unique"
    /\ unique_headers' = MakeUnique(headers)
    /\ pc' = "records"
    /\ UNCHANGED <<htmlVars, charVars, rows, table, cleaned_table, header_row_count,
                   data_rows, headers, result>>

\* json_data: one record per row of data_rows
AssemblePdf ==
    /\ pc = "records"
    /\ result' = IF IsRaised(unique_headers) THEN TypeError
                 ELSE PList(PdfJsonData(unique_headers.list, data_rows))
    /\ pc' = "done"
    /\ UNCHANGED <<htmlVars, charVars, rows, table, cleaned_table, header_row_count,
                   data_rows, headers, unique_headers>>

NextPdf ==
    \/ ReturnEmptyPdf
    \/ \E row \in PdfRows : CleanRow(row)
    \/ EndClean
    \/ ReturnOneRow
    \/ DetectPdf
    \/ UniquePdf
    \/ AssemblePdf
SpecPdf == InitPdf /\ [][NextPdf]_vars

\* The steps compute what the call from the character grid computes.
PdfStepsAgreeWithCall ==
    pc = "done" => result = ProcessPdfTable(table)

(***************************************************************************)
(* _extract_tables_by_character_grid on the characters of one page, with   *)
(* the loop of _group_characters_into_rows step by step.                   *)
(***************************************************************************)
MaxChars == 4

\* The characters of a page: a letter at tops that fall in one row or in
\* different rows and at columns of one cell or of two, and a blank.
Tops == {0, 3, 6, 12}
PageChars ==
    {Char("a", top, x0) : top \in Tops, x0 \in {0, 20}}
    \cup {Char(" ", top, 0) : top \in Tops}
Pages == UNION {[1..n -> PageChars] : n \in 0..MaxChars}

\* The characters put in a row so far, and the character the loop is at.
Placed == Decls(rows) + Len(current_row)
NextChar == sorted_chars[Placed + 1]

InitChars ==
    /\ chars \in Pages
    /\ sorted_chars = <<>>
    /\ current_row = <<>>
    /\ current_top = 0
    /\ NoPdfTable
    /\ NoHtmlTable
    /\ rows = <<>>
    /\ headers = <<>>
    /\ unique_headers = PList(<<>>)
    /\ result = PNone
    /\ pc = "chars"

\* if not chars: return []
ReturnNoChars ==
    /\ pc = "chars"
    /\ chars = <<>>
    /\ result' = PList(<<>>)
    /\ pc' = "done"
    /\ UNCHANGED <<htmlVars, charVars, rows, table, cleaned_table, header_row_count,
                   data_rows, headers, unique_headers>>

\* sorted_chars = sorted(chars, key=lambda c: (c.get('top', 0), c.get('x0', 0)))
SortChars ==
    /\ pc = "chars"
    /\ chars # <<>>
    /\ sorted_chars' = Sorted(chars, TRUE)
    /\ pc' = "first"
    /\ UNCHANGED <<htmlVars, chars, current_row, current_top, rows, table, cleaned_table,
                   header_row_count, data_rows, headers, unique_headers, result>>

\* rows = []; current_row = [chars[0]]; current_top = chars[0].get('top', 0)
FirstChar ==
    /\ pc = "first"
    /\ rows' = <<>>
    /\ current_row' = <<sorted_chars[1]>>
    /\ current_top' = sorted_chars[1].top
    /\ pc' = "group"
    /\ UNCHANGED <<htmlVars, chars, sorted_chars, table, cleaned_table, header_row_count,
                   data_rows, headers, unique_headers, result>>

\* The append with the reference top following the row: current_top = char_top.
AppendCharMovingTop ==
    /\ pc = "group"
    /\ Placed < Len(sorted_chars)
    /\ Abs(NextChar.top - current_top) <= row_threshold
    /\ current_row' = Append(current_row, NextChar)
    /\ current_top' = NextChar.top
    /\ UNCHANGED <<htmlVars, chars, sorted_chars, rows, table, cleaned_table,
                   header_row_count, data_rows, headers, unique_headers, result, pc>>

\* if abs(char_top - current_top) <= row_threshold: current_row.append(char)
AppendChar ==
    /\ pc = "group"
    /\ Placed < Len(sorted_chars)
    /\ Abs(NextChar.top - current_top) <= row_threshold
    /\ current_row' = Append(current_row, NextChar)
    /\ UNCHANGED <<htmlVars, chars, sorted_chars, current_top, rows, table, cleaned_table,
                   header_row_count, data_rows, headers, unique_headers, result, pc>>

\* else: rows.append(current_row); current_row = [char]; current_top = char_top
StartRow ==
    /\ pc = "group"
    /\ Placed < Len(sorted_chars)
    /\ ~(Abs(NextChar.top - current_top) <= row_threshold)
    /\ rows' = Append(rows, current_row)
    /\ current_row' = <<NextChar>>
    /\ current_top' = NextChar.top
    /\ UNCHANGED <<htmlVars, chars, sorted_chars, table, cleaned_table,
                   header_row_count, data_rows, headers, unique_headers, result, pc>>

\* if current_row: rows.append(current_row); return rows
LastRow ==
    /\ pc = "group"
    /\ Placed = Len(sorted_chars)
    /\ rows' = IF current_row # <<>> THEN Append(rows, current_row) ELSE rows
    /\ pc' = "cells"
    /\ UNCHANGED <<htmlVars, charVars, table, cleaned_table, header_row_count,
                   data_rows, headers, unique_headers, result>>

\* Group into cells and reconstruct table
BuildTable ==
    /\ pc = "cells"
    /\ table' = ReconstructTable(rows)
    /\ pc' = "filter"
    /\ UNCHANGED <<htmlVars, charVars, rows, cleaned_table, header_row_count,
                   data_rows, headers, unique_headers, result>>

\* Filter out likely non-table content: the tables returned for the page
ExtractTables ==
    /\ pc = "filter"
    /\ result' = ExtractedTables(table)
    /\ pc' = "done"
    /\ UNCHANGED <<htmlVars, charVars, rows, table, cleaned_table, header_row_count,
                   data_rows, headers, unique_headers>>

NextChars ==
    \/ ReturnNoChars
    \/ SortChars
    \/ FirstChar
    \/ AppendChar
    \/ StartRow
    \/ LastRow
    \/ BuildTable
    \/ ExtractTables
SpecChars == InitChars /\ [][NextChars]_vars

(***************************************************************************)
(* The properties checked.                                                 *)
(***************************************************************************)
\* The cell declaration read last, and the cell declarations of a table.
LastCell == rows[Len(rows)][Len(rows[Len(rows)])]
Returned == pc = "done" /\ rows # <<>>
Rectangle == (0..max_row) \X (0..max_col)

\* C1: _make_unique returns as many names as it was given, and they are
\* pairwise distinct, whatever the header names (names of the form name_N
\* included).
C1_UniqueHeadersDistinct ==
    (Returned /\ headers # <<>> /\ IsList(unique_headers))
        => /\ Len(unique_headers.list) = Len(headers)
           /\ \A i, j \in DOMAIN unique_headers.list :
                 i # j => unique_headers.list[i] # unique_headers.list[j]

\* Every declaration has row_span >= 1 and col_span >= 1, as a Cell
\* Declaration of the data model has.
SpansPositive ==
    \A r \in DOMAIN rows : \A c \in DOMAIN rows[r] :
        SpanOf(rows[r][c], "rowspan") >= 1 /\ SpanOf(rows[r][c], "colspan") >= 1

\* C2: at every step of the fill loop, no coordinate the cell is about to
\* write is already in the occupancy set (stated for declarations whose spans
\* are all >= 1, where it already fails).
C2_NoDoubleClaim ==
    (pc = "fill" /\ SpansPositive)
        => Covered(current_row_idx, current_col_idx, rowspan, colspan)
              \cap occupied_cells = {}

\* The summed row_span * col_span of the declarations.
RECURSIVE AreaOfCells(_)
AreaOfCells(cells) ==
    IF cells = <<>> THEN 0
    ELSE SpanOf(Head(cells), "rowspan") * SpanOf(Head(cells), "colspan")
         + AreaOfCells(Tail(cells))
RECURSIVE Area(_)
Area(rws) == IF rws = <<>> THEN 0 ELSE AreaOfCells(Head(rws)) + Area(Tail(rws))

\* C3: when the declared area equals the number of cells of the dense grid,
\* every cell of the grid was written by a declaration (none holds the
\* default fill) and the matrix holds the value written there (stated for
\* declarations whose spans are all >= 1, where it already fails).
C3_SpanCoverage ==
    (pc = "detect" /\ SpansPositive /\ Area(rows) = (max_row + 1) * (max_col + 1))
        => \A p \in Rectangle :
              /\ p \in occupied_cells
              /\ table_matrix[p[1] + 1][p[2] + 1] = grid[p]

\* The declaration being filled has a span that is absent or <= 0.
SpanAnomaly ==
    \/ DOMAIN LastCell.attrs # {"rowspan", "colspan"}
    \/ rowspan <= 0
    \/ colspan <= 0

\* C4: a cell whose span is absent or <= 0 is laid out as with span 1: the
\* fill writes its value at its anchor, and col_index advances by at least 1.
C4_SpanNormalized ==
    [][(pc = "fill" /\ SpanAnomaly)
         => /\ <<current_row_idx, current_col_idx>> \in DOMAIN grid'
            /\ grid'[<<current_row_idx, current_col_idx>>] = cell_value
            /\ current_col_idx' >= current_col_idx + 1]_vars

\* C5: processing a table ends with a TableResult (a list of records or a
\* list of lists, possibly empty), never with an exception.
C5_Total ==
    pc = "done" => (~IsRaised(result) /\ IsList(result))

\* C6: in a Records result every record has the same keys, which are the
\* deduplicated header names in column order, one key per header column.
C6_RecordKeysUniform ==
    (Returned /\ headers # <<>> /\ IsList(result) /\ IsList(unique_headers))
        => \A i \in DOMAIN result.list :
              /\ DictKeys(result.list[i])
                    = [j \in DOMAIN unique_headers.list |-> unique_headers.list[j].str]
              /\ Len(result.list[i].dict) = Len(headers)

\* The table has no thead, every cell has row_span = col_span = 1, and row 0
\* is its one header row: all its cells are th, and no other row's are.
NoSpanOneHeaderRow ==
    /\ ~thead.present
    /\ \A r \in DOMAIN rows : \A c \in DOMAIN rows[r] :
          SpanOf(rows[r][c], "rowspan") = 1 /\ SpanOf(rows[r][c], "colspan") = 1
    /\ rows[1] # <<>> /\ AllTh(rows[1])
    /\ \A r \in DOMAIN rows : r > 1 => ~AllTh(rows[r])

\* C7: such a table gives len(rows) - 1 records, record i mapping the header
\* texts of row 0, in column order, to the cell values of row declaration i+1.
C7_RoundTrip ==
    (Returned /\ NoSpanOneHeaderRow)
        => /\ IsList(result)
           /\ Len(result.list) = Len(rows) - 1
           /\ \A i \in DOMAIN result.list :
                 /\ IsDict(result.list[i])
                 /\ DictKeys(result.list[i])
                       = [j \in DOMAIN rows[1] |-> GetText(rows[1][j])]
                 /\ \A j \in DOMAIN rows[i + 1] :
                       j <= Len(result.list[i].dict)
                          => result.list[i].dict[j].value = CellValue(rows[i + 1][j])

\* The results of the tables directly inside a cell, when none raises.
DirectResults(cell) == [i \in DOMAIN cell.tables |-> ProcessTable(cell.tables[i])]

\* C8: the value of a cell that directly contains one table is that table's
\* result, and of a cell that directly contains several, the list of theirs:
\* each nested table's result appears once, in the cell that contains it.
C8_NestedOnce ==
    (pc = "fill" /\ LastCell.tables # <<>>)
        => cell_value = IF Len(LastCell.tables) = 1
                        THEN DirectResults(LastCell)[1]
                        ELSE PList(DirectResults(LastCell))

\* C9: the dense grid has a row at the index of every row declaration, a
\* declaration without cells included, wherever it stands.
C9_EmptyRowOccupiesRow ==
    pc = "detect" => Len(table_matrix) >= Len(rows)

\* The header row count of the decision order: the rows of the thead when
\* there is one, else 2, 1 or 0 by the th marking of rows 0 and 1.
HeaderRowCount ==
    IF thead.present THEN thead.rows
    ELSE IF ~AllTh(rows[1]) THEN 0
    ELSE IF Len(rows) > 1 /\ AllTh(rows[2]) THEN 2
    ELSE 1

\* The result is Records built from the rows of table_matrix after the first
\* k: one record per such row, every value of a record taken from its row
\* (or None where the row is shorter than the header).
RecordsAfter(k) ==
    /\ IsList(result)
    /\ Len(result.list) = Max(0, Len(table_matrix) - k)
    /\ \A i \in DOMAIN result.list :
          /\ IsDict(result.list[i])
          /\ \A j \in DOMAIN result.list[i].dict :
                result.list[i].dict[j].value \in Range(table_matrix[k + i]) \cup {PNone}

\* The outcome of the decision order: the header rows are HeaderRowCount;
\* with none the result is the dense grid as a Matrix, otherwise Records.
HeaderDecision ==
    /\ data_start_index = HeaderRowCount
    /\ IF HeaderRowCount = 0
       THEN result = MatrixValue(TableMatrix(G))
       ELSE RecordsAfter(HeaderRowCount)

\* C10: the header rows are those of the decision order; with none the
\* result is the dense grid as a Matrix, otherwise Records built from the
\* rows after the header rows.
C10_HeaderDecision ==
    Returned => HeaderDecision

\* The decision order holds of every run that ends without an exception.
HeaderDecisionUnlessRaised ==
    (Returned /\ ~IsRaised(result)) => HeaderDecision

\* The number of earlier positions holding the name at position i, and the
\* name the rule gives position i.
EarlierSame(names, i) == Cardinality({j \in 1..(i - 1) : names[j] = names[i]})
NamedByRule(names, i) ==
    IF EarlierSame(names, i) = 0 THEN names[i]
    ELSE PStr(names[i].str \o "_" \o ToString(EarlierSame(names, i)))

\* C11: _make_unique gives position i its input name when no earlier position
\* holds that name, and the name followed by _N, N the number of earlier
\* positions holding it, otherwise; so a sequence without repeats is returned
\* unchanged.
C11_DedupNaming ==
    pc = "records"
        => /\ IsList(unique_headers)
           /\ Len(unique_headers.list) = Len(headers)
           /\ \A i \in DOMAIN headers : unique_headers.list[i] = NamedByRule(headers, i)
           /\ (\A i \in DOMAIN headers : EarlierSame(headers, i) = 0)
                 => unique_headers.list = headers

\* A name was seen three times: its occurrences are Id, Id_1, Id_2.
C11_Witness ==
    /\ pc = "records"
    /\ headers = <<PStr("Id"), PStr("Id"), PStr("Id")>>
    /\ unique_headers = PList(<<PStr("Id"), PStr("Id_1"), PStr("Id_2")>>)

\* The record the assembly gives a row: header j maps to the row's value at
\* j, or to None where the row is shorter; values beyond the header are in
\* no field.
RecordOf(names, row) ==
    PDict([j \in DOMAIN names |->
              Item(names[j].str, IF j <= Len(row) THEN row[j] ELSE PNone)])

\* C12: every record has one field per header column, in column order, the
\* field of column j holding the row's value at j or None when the row is
\* shorter; there is one record per row after the header rows.
C12_RecordFields ==
    (pc = "done" /\ Len(cleaned_table) > 1 /\ IsList(unique_headers))
        => /\ IsList(result)
           /\ Len(result.list) = Len(cleaned_table) - header_row_count
           /\ \A i \in DOMAIN result.list :
                 result.list[i]
                    = RecordOf(unique_headers.list, cleaned_table[header_row_count + i])

\* The names _make_unique returned are pairwise distinct.
DistinctNames ==
    \A i, j \in DOMAIN unique_headers.list :
        i # j => unique_headers.list[i] # unique_headers.list[j]

\* The record assembly is as C12 says whenever the names are distinct.
RecordFieldsWhenDistinct ==
    DistinctNames => C12_RecordFields

\* The number of empty cells of a cleaned row.
EmptyCells(row) == Cardinality({i \in DOMAIN row : row[i] = PStr("")})

\* The header row count the heuristic rule gives a cleaned grid of two or
\* more rows.
HeuristicCount(grid_rows) ==
    IF /\ Len(grid_rows) >= 3
       /\ EmptyCells(grid_rows[2]) < EmptyCells(grid_rows[1])
       /\ 2 * EmptyCells(grid_rows[2]) < Len(grid_rows[2])
    THEN 2 ELSE 1

TrimmedAt(header_rows, col) ==
    [r \in DOMAIN header_rows |->
        IF col <= Len(header_rows[r]) THEN Strip(PyStr(header_rows[r][col])) ELSE ""]
NonEmpty(text) == text # ""
\* The texts joined with " - ", from the left.
RECURSIVE Dashed(_)
Dashed(texts) ==
    IF texts = <<>> THEN ""
    ELSE IF Len(texts) = 1 THEN texts[1]
    ELSE Dashed(SubSeq(texts, 1, Len(texts) - 1)) \o " - " \o texts[Len(texts)]
\* The width of the widest row.
Widest(header_rows) ==
    IF header_rows = <<>> THEN 0
    ELSE CHOOSE w \in {Len(header_rows[r]) : r \in DOMAIN header_rows} :
            \A r \in DOMAIN header_rows : Len(header_rows[r]) <= w

MergedNamesOfTable ==
    (pc \in {"assemble", "done"} /\ data_start_index >= 2 /\ Len(table_matrix) >= 2)
        => LET header_rows == Take(table_matrix, data_start_index)
           IN  /\ Len(headers) = Widest(header_rows)
               /\ \A col \in DOMAIN headers :
                     headers[col]
                        = PStr(Dashed(SelectSeq(TrimmedAt(header_rows, col), NonEmpty)))

\* The rows put end to end.
RECURSIVE Concatenated(_)
Concatenated(rws) ==
    IF rws = <<>> THEN <<>> ELSE Head(rws) \o Concatenated(Tail(rws))

\* s is t in the order of (top, x0): ascending, with the same characters as
\* many times each.
SortedByPosition(s, t) ==
    /\ Len(s) = Len(t)
    /\ \A i \in 1..(Len(s) - 1) :
          \/ s[i].top < s[i + 1].top
          \/ s[i].top = s[i + 1].top /\ s[i].x0 <= s[i + 1].x0
    /\ \A c \in Range(s) \cup Range(t) :
          Cardinality({i \in DOMAIN s : s[i] = c}) = Cardinality({i \in DOMAIN t : t[i] = c})

\* C15: the rows _group_characters_into_rows returns are non-empty and, put
\* end to end, are the characters sorted by (top, x0); every character of a
\* row is within the tolerance of the top of the row's first character, and
\* the first character of a later row is farther than the tolerance from the
\* top of the first character of the row before.
C15_RowClustering ==
    pc = "cells"
        => /\ SortedByPosition(sorted_chars, chars)
           /\ Concatenated(rows) = sorted_chars
           /\ \A r \in DOMAIN rows :
                 /\ rows[r] # <<>>
                 /\ \A i \in DOMAIN rows[r] :
                       Abs(rows[r][i].top - rows[r][1].top) <= 5
                 /\ r > 1 => Abs(rows[r][1].top - rows[r - 1][1].top) > 5

\* A row was closed by a character that is within the tolerance of the row's
\* last character, though not of its first: the reference top did not move.
C15_Witness ==
    /\ pc = "cells"
    /\ Len(rows) = 2
    /\ Len(rows[1]) = 2
    /\ rows[1][1].top = 0
    /\ rows[1][2].top = 3
    /\ rows[2][1].top = 6
    /\ chars[1].top = 6

====
